---------------------------- MODULE Spec2Model ----------------------------
(***************************************************************************)
(* sdk_pytest_checkmate: the recording API (step, soft_assert,             *)
(* add_data_report) of _core.py, the registry it records into, and the two *)
(* adapters (_json_validator.py, _http_client.py).                         *)
(*                                                                         *)
(* Python values are modelled as follows.  An optional value is a sequence *)
(* of length at most one: None is << >> and a present value x is << x >>.  *)
(* A Python str is a TLA+ string; objects are references (indices) into    *)
(* the heap `records`.                                                     *)
(***************************************************************************)
EXTENDS Integers, Sequences, FiniteSets, TLC

VARIABLES
    current,    \* registry: identity of the test now running, or NoTest
    registry,   \* registry: test identity -> timeline (sequence of record references)
    records,    \* heap of record objects, in order of creation
    now,        \* the latest reading of time.monotonic()
    handles,    \* StepContext objects: handle -> its _record (optional reference)
    stack,      \* task -> the step scopes it has open, innermost last
    exc,        \* task -> the exception now propagating in it (optional)
    audit,      \* history: per record, what the scope that registered it did
    phase,      \* history: test identity -> "new", "begun" or "drained"
    calls,      \* history: test identity -> the recording calls made under it, in order
    last        \* outcome of the latest operation (return value or raised exception)

vars == <<current, registry, records, now, handles, stack, exc, audit, phase, calls, last>>

-----------------------------------------------------------------------------
(* Bounds of the model *)

MaxRecords == 2       \* records created in one run of the sequential model
MaxDepth == 1         \* step scopes the sequential test body nests
MaxNest == 2          \* step scopes nested inside and outside tests
MaxStepRecords == 3   \* records created in one run of the concurrent model
MaxOpen == 2          \* step scopes open at once, over all tasks
MaxDrained == 2        \* recording calls made in one run of the drain model
MaxChecks == 1        \* soft checks recorded in one run of the soft_assert model
MaxAdapterRecords == 1 \* records created in one run of the adapter model
MaxClock == 1         \* readings of the monotonic clock are 0..MaxClock

Tests == {"t1", "t2"}
Tasks == {"A", "B"}
Handles == {"h1", "h2"}
StepExceptions == {"Error", "CancelledError"}

NoTest == "NoTest"
None == << >>
Some(x) == << x >>

-----------------------------------------------------------------------------
(* Record Model (_models.py) and Execution Context Registry (_context.py)  *)

\* StepRecord(name): a new, open step record.
StepRecord(name) ==
    [kind |-> "step", name |-> name, start |-> None, end |-> None,
     outcome |-> None, exception_summary |-> None]

\* StepRecord.finish(exception_or_none), reading the clock as t.
finish(rec, e, t) ==
    [rec EXCEPT !.end = Some(t),
                !.outcome = Some(IF e # None THEN "failed" ELSE "ok"),
                !.exception_summary = e]

SoftCheckRecord(message, passed, details) ==
    [kind |-> "soft", message |-> message, passed |-> passed, details |-> details]

DataRecord(label, payload) ==
    [kind |-> "data", label |-> label, payload |-> payload]

\* Appending one record to the current test's timeline.  Outside any tracked
\* test nothing is stored.  rec is the record made, ref the reference stored.
append_record(rec) ==
    IF current = NoTest
    THEN [rec |-> rec, ref |-> None, records |-> records, registry |-> registry]
    ELSE [rec |-> rec, ref |-> Some(Len(records) + 1),
          records |-> Append(records, rec),
          registry |-> [registry EXCEPT ![current] = Append(@, Len(records) + 1)]]

\* add_step_record(name) -> StepRecord | None
add_step_record(name) == append_record(StepRecord(name))

\* add_soft_check_record(message, passed, details) -> SoftCheckRecord
add_soft_check_record(message, passed, details) ==
    append_record(SoftCheckRecord(message, passed, details))

\* add_data_record(label, payload) -> DataRecord
add_data_record(label, payload) == append_record(DataRecord(label, payload))

\* An operation that stores nothing.
NoAppend == [ref |-> None, records |-> records, registry |-> registry]

-----------------------------------------------------------------------------
(* History kept beside the heap: one entry per record, same index.         *)

\* What is known of a record when it is created: the scope that registered
\* it (if it is a step record) has not exited, and nothing has closed it.
NewAudit == [exited |-> FALSE, escaped |-> FALSE, closes |-> 0]

Audited(a) ==
    audit \o [i \in 1..(Len(a.records) - Len(records)) |-> NewAudit]

\* The history after a recording call made under a tracked test returned.
Logged(call) ==
    IF current = NoTest THEN calls ELSE [calls EXCEPT ![current] = Append(@, call)]

\* The recording calls made under tests so far.
Made == Len(calls["t1"]) + Len(calls["t2"])

\* The step scopes now open, over all tasks.
Open == Len(stack["A"]) + Len(stack["B"])

-----------------------------------------------------------------------------
(* StepContext (_core.py): the handle step(name) returns                   *)

\* StepContext.__enter__, with time.monotonic() reading t.
__enter__(h, t) ==
    LET a == add_step_record(h)
    IN  [handles |-> [handles EXCEPT ![h] = a.ref],
         records |-> IF a.ref # None
                     THEN [a.records EXCEPT ![a.ref[1]] =
                              [@ EXCEPT !.start = Some(t), !.end = None]]
                     ELSE a.records,
         registry |-> a.registry,
         ref |-> a.ref]

\* StepContext.__exit__(exc_type, exc_value, traceback), reading the clock as
\* t; ret is the value returned to the with statement (TRUE would suppress).
__exit__(h, exc_value, t) ==
    [records |-> IF handles[h] # None
                 THEN [records EXCEPT ![handles[h][1]] = finish(@, exc_value, t)]
                 ELSE records,
     ret |-> FALSE]

\* StepContext.__aenter__
__aenter__(h, t) == __enter__(h, t)

\* StepContext.__aexit__
__aexit__(h, exc_value, t) == __exit__(h, exc_value, t)

\* How each handle is used: h1 by `with`, h2 by `async with`.
Mode(h) == IF h = "h1" THEN "sync" ELSE "async"

\* `with step(..)` / `async with step(..)`: task k enters handle h.
Enter(k, h) ==
    /\ exc[k] = None
    /\ \E t \in now..MaxClock :
          LET r == IF Mode(h) = "sync" THEN __enter__(h, t) ELSE __aenter__(h, t)
          IN  /\ handles' = r.handles
              /\ records' = r.records
              /\ registry' = r.registry
              /\ now' = IF r.ref # None THEN t ELSE now
              /\ stack' = [stack EXCEPT ![k] = Append(@, [h |-> h, ref |-> r.ref])]
              /\ audit' = Audited(r)
              /\ calls' = Logged([kind |-> "step", key |-> h, returned |-> TRUE])
              /\ last' = [op |-> "enter", ref |-> r.ref, raised |-> None,
                          untouched |-> (Len(r.records) = Len(records))]
    /\ UNCHANGED <<current, exc, phase>>

\* The body of the innermost scope of task k raises e (or k is cancelled there).
Raise(k, e) ==
    /\ exc[k] = None
    /\ stack[k] # << >>
    /\ exc' = [exc EXCEPT ![k] = Some(e)]
    /\ last' = [op |-> "raise"]
    /\ UNCHANGED <<current, registry, records, now, handles, stack, audit, phase, calls>>

\* Control leaves the innermost scope of task k, normally or with the
\* exception that is propagating.
Exit(k) ==
    /\ stack[k] # << >>
    /\ LET f == stack[k][Len(stack[k])]
           e == exc[k]
           done == handles[f.h]
       IN  \E t \in now..MaxClock :
             LET r == IF Mode(f.h) = "sync" THEN __exit__(f.h, e, t)
                                             ELSE __aexit__(f.h, e, t)
                 a1 == IF f.ref = None THEN audit
                       ELSE [audit EXCEPT ![f.ref[1]] =
                                [@ EXCEPT !.exited = TRUE, !.escaped = (e # None)]]
                 a2 == IF done = None THEN a1
                       ELSE [a1 EXCEPT ![done[1]] = [@ EXCEPT !.closes = @ + 1]]
             IN  /\ records' = r.records
                 /\ now' = IF r.records = records THEN now ELSE t
                 /\ exc' = [exc EXCEPT ![k] = IF r.ret THEN None ELSE e]
                 /\ stack' = [stack EXCEPT ![k] = SubSeq(@, 1, Len(@) - 1)]
                 /\ audit' = a2
                 /\ last' = [op |-> "exit", ref |-> f.ref, raised |-> e,
                             propagated |-> IF r.ret THEN None ELSE e,
                             untouched |-> (r.records = records)]
    /\ UNCHANGED <<current, registry, handles, phase, calls>>

\* The caller of the scope that let the exception through handles it.
Catch(k) ==
    /\ exc[k] # None
    /\ exc' = [exc EXCEPT ![k] = None]
    /\ last' = [op |-> "catch"]
    /\ UNCHANGED <<current, registry, records, now, handles, stack, audit, phase, calls>>

-----------------------------------------------------------------------------
(* Python values, as far as soft_assert looks at them: bool(), str() and   *)
(* repr() of the builtin types.                                            *)

PyBool(b) == [type |-> "bool", b |-> b]
PyInt(i) == [type |-> "int", i |-> i]
PyStr(s) == [type |-> "str", s |-> s]
PyNone == [type |-> "NoneType"]
PyList(l) == [type |-> "list", l |-> l]     \* a list of ints

RECURSIVE Join(_)
Join(l) ==
    IF l = << >> THEN ""
    ELSE IF Len(l) = 1 THEN ToString(l[1])
    ELSE ToString(l[1]) \o ", " \o Join(Tail(l))

\* bool(v)
bool(v) ==
    CASE v.type = "bool" -> v.b
      [] v.type = "int" -> v.i # 0
      [] v.type = "str" -> v.s # ""
      [] v.type = "NoneType" -> FALSE
      [] v.type = "list" -> v.l # << >>

\* str(v)
str(v) ==
    CASE v.type = "bool" -> IF v.b THEN "True" ELSE "False"
      [] v.type = "int" -> ToString(v.i)
      [] v.type = "str" -> v.s
      [] v.type = "NoneType" -> "None"
      [] v.type = "list" -> "[" \o Join(v.l) \o "]"

\* repr(v)
repr(v) == IF v.type = "str" THEN "'" \o v.s \o "'" ELSE str(v)

-----------------------------------------------------------------------------
(* soft_assert (_core.py) and its condition introspector                   *)

\* What the introspector finds at the caller: whether there is a caller
\* frame, how reading the caller's source file ends, whether the frame's line
\* number lies in the file, the first argument that the scan of the source
\* lines extracts (None when it finds no balanced soft_assert( call), and
\* the caller's binding of the one name the sources of the model mention, x
\* or is_valid (None when it is unbound).
Env(frame, read, lineno_ok, condition_str, x) ==
    [frame |-> frame, read |-> read, lineno_ok |-> lineno_ok,
     condition_str |-> condition_str, x |-> x]

\* ast.parse(condition_str, mode="eval") on the sources of the model.
ast_parse(src) ==
    CASE src = "x > 5" ->
            [ok |-> TRUE, node |-> "Compare", left |-> "x", ops |-> <<"Gt">>,
             comparators |-> <<"5">>]
      [] src = "x is None" ->
            [ok |-> TRUE, node |-> "Compare", left |-> "x", ops |-> <<"Is">>,
             comparators |-> <<"None">>]
      [] src = "x.pop() == 1" ->
            [ok |-> TRUE, node |-> "Compare", left |-> "x.pop()", ops |-> <<"Eq">>,
             comparators |-> <<"1">>]
      [] src = "x.pop()" -> [ok |-> TRUE, node |-> "Call"]
      [] src \in {"x", "is_valid"} -> [ok |-> TRUE, node |-> "Name"]
      [] OTHER -> [ok |-> FALSE]

\* eval(code, frame_globals, frame_locals) on the operands of the model,
\* the caller's binding being x: the value or the exception, and the binding
\* the evaluation leaves behind (list.pop() removes the last item of the
\* caller's list).
eval(code, x) ==
    CASE code = "5" -> [raised |-> None, value |-> PyInt(5), x |-> x]
      [] code = "1" -> [raised |-> None, value |-> PyInt(1), x |-> x]
      [] code = "None" -> [raised |-> None, value |-> PyNone, x |-> x]
      [] code \in {"x", "is_valid"} /\ x # None ->
            [raised |-> None, value |-> x[1], x |-> x]
      [] code = "x.pop()" /\ x # None ->
            IF x[1].type # "list" THEN [raised |-> Some("AttributeError"), x |-> x]
            ELSE IF x[1].l = << >> THEN [raised |-> Some("IndexError"), x |-> x]
            ELSE [raised |-> None, value |-> PyInt(x[1].l[Len(x[1].l)]),
                  x |-> Some(PyList(SubSeq(x[1].l, 1, Len(x[1].l) - 1)))]
      [] OTHER -> [raised |-> Some("NameError"), x |-> x]

\* A variant of op_map that leaves the operator's class name in place.
op_names(op) == op

\* op_map.get(type(op), type(op).__name__)
op_map(op) ==
    CASE op = "Gt" -> ">"
      [] op = "Lt" -> "<"
      [] op = "GtE" -> ">="
      [] op = "LtE" -> "<="
      [] op = "Eq" -> "=="
      [] op = "NotEq" -> "!="
      [] op = "Is" -> "is"
      [] op = "IsNot" -> "is not"
      [] op = "In" -> "in"
      [] op = "NotIn" -> "not in"
      [] OTHER -> op

\* The details derived from a non-empty condition source, and the caller's
\* binding after the evaluations that derived them.
describe(condition_str, env) ==
    LET tree == ast_parse(condition_str)
    IN  IF ~tree.ok THEN [details |-> condition_str, x |-> env.x]
        ELSE IF tree.node = "Compare"
        THEN LET left_code == tree.left
                 l == eval(left_code, env.x)
                 left_repr == IF l.raised = None THEN repr(l.value) ELSE left_code
             IN  IF tree.ops # << >> /\ tree.comparators # << >>
                 THEN LET right_code == tree.comparators[1]
                          r == eval(right_code, l.x)
                          right_repr == IF r.raised = None THEN repr(r.value)
                                        ELSE right_code
                          op_str == op_map(tree.ops[1])
                      IN  [details |-> condition_str \o " (" \o left_repr \o " "
                                          \o op_str \o " " \o right_repr \o ")",
                           x |-> r.x]
                 ELSE [details |-> condition_str, x |-> l.x]
        ELSE LET result == eval(condition_str, env.x)
             IN  IF result.raised = None
                 THEN [details |-> condition_str \o " (evaluates to "
                                      \o repr(result.value) \o ")",
                       x |-> result.x]
                 ELSE [details |-> condition_str, x |-> result.x]

\* The `if details is None:` block of soft_assert: the details it derives, or
\* the exception that leaves it, and the caller's binding when it is left.
introspect(condition, env) ==
    IF ~env.frame THEN [raised |-> None, details |-> str(condition), x |-> env.x]
    ELSE IF env.read = "OSError"
    THEN [raised |-> None, details |-> str(condition), x |-> env.x]
    ELSE IF env.read # "ok" THEN [raised |-> Some(env.read), x |-> env.x]
    ELSE IF ~env.lineno_ok
    THEN [raised |-> None, details |-> str(condition), x |-> env.x]
    ELSE IF env.condition_str # None /\ env.condition_str[1] # ""
    THEN LET d == describe(env.condition_str[1], env)
         IN  [raised |-> None, details |-> d.details, x |-> d.x]
    ELSE [raised |-> None, details |-> str(condition), x |-> env.x]

\* Line 279: add_soft_check_record(msg, bool(condition), details)
soft_assert_record(condition, msg, details) ==
    add_soft_check_record(msg, bool(condition), Some(details))

\* Line 280: return bool(condition)
soft_assert_return(condition) == bool(condition)

\* soft_assert(condition, message=None, details=None) -> bool
soft_assert(condition, message, details, env) ==
    LET msg == IF message # None /\ message[1] # "" THEN message[1]
               ELSE "Soft assertion"
        d == IF details = None THEN introspect(condition, env)
             ELSE [raised |-> None, details |-> details[1], x |-> env.x]
    IN  IF d.raised # None
        THEN [raised |-> d.raised, ret |-> None, rec |-> None, a |-> NoAppend,
              x |-> d.x]
        ELSE LET a == soft_assert_record(condition, msg, d.details)
             IN  [raised |-> None, ret |-> Some(soft_assert_return(condition)),
                  rec |-> Some(a.rec), a |-> a, x |-> d.x]

\* Task k calls soft_assert.
SoftAssert(k, condition, message, details, env) ==
    /\ exc[k] = None
    /\ LET r == soft_assert(condition, message, details, env)
       IN  /\ records' = r.a.records
           /\ registry' = r.a.registry
           /\ audit' = Audited(r.a)
           /\ calls' = Logged([kind |-> "soft", key |-> bool(condition),
                               returned |-> (r.raised = None)])
           /\ exc' = [exc EXCEPT ![k] = r.raised]
           /\ last' = [op |-> "soft", raised |-> r.raised, ret |-> r.ret,
                       rec |-> r.rec, condition |-> condition, message |-> message,
                       details |-> details, source |-> env.condition_str,
                       x |-> env.x, x_after |-> r.x]
    /\ UNCHANGED <<current, now, handles, stack, phase>>

\* The inputs of the model.
CondValues ==
    {PyBool(TRUE), PyBool(FALSE), PyInt(0), PyStr(""), PyStr("a"), PyNone,
     PyList(<< >>), PyList(<<1>>)}
Messages == {None, Some(""), Some("m")}
Details == {"d", ""}
CondSources == {"x > 5", "x is None", "x.pop() == 1", "x", "x.pop()", "x >"}
Bindings == {None, Some(PyInt(3)), Some(PyStr("")), Some(PyList(<<1, 1>>))}
\* The ways the introspector can fail to reach a condition source, and every
\* source it can reach under every binding of x.
Envs ==
    {Env(FALSE, "ok", TRUE, None, None),
     Env(TRUE, "OSError", TRUE, None, None),
     Env(TRUE, "UnicodeDecodeError", TRUE, None, None),
     Env(TRUE, "ok", FALSE, None, None),
     Env(TRUE, "ok", TRUE, None, None)}
    \cup {Env(TRUE, "ok", TRUE, Some(c), x) : c \in CondSources, x \in Bindings}

\* A caller whose source is found and whose x is 3.
PlainEnv == Env(TRUE, "ok", TRUE, Some("x > 5"), Some(PyInt(3)))
\* A caller whose source file is not valid UTF-8.
UndecodableEnv == Env(TRUE, "UnicodeDecodeError", TRUE, None, None)

-----------------------------------------------------------------------------
(* add_data_report (_core.py)                                              *)

Payloads == {"p1", "p2"}
Labels == {"l1"}

\* add_data_report(data, label) -> DataRecord
add_data_report(data, label) == add_data_record(label, data)

DataReport(k, data, label) ==
    /\ exc[k] = None
    /\ LET a == add_data_report(data, label)
       IN  /\ records' = a.records
           /\ registry' = a.registry
           /\ audit' = Audited(a)
           /\ calls' = Logged([kind |-> "data", key |-> data, returned |-> TRUE])
           /\ last' = [op |-> "data", ref |-> a.ref, raised |-> None]
    /\ UNCHANGED <<current, now, handles, stack, exc, phase>>

-----------------------------------------------------------------------------
(* _json_validator.py.  A schema is either the object schema that requires  *)
(* an integer id and a string name, or one the validator cannot use (such  *)
(* as {"type": 12}, on which iter_errors raises).                          *)

UserSchema == [kind |-> "object", id |-> "integer", name |-> "string"]
BadSchema == [kind |-> "unusable"]
Schemas == {UserSchema, BadSchema}
SchemaPaths == {"ok.json", "missing.json", "broken.json"}
JsonData ==
    {[id |-> PyInt(1), name |-> PyStr("a")],
     [id |-> PyStr("x"), name |-> PyStr("a")],
     [id |-> PyStr("x"), name |-> PyInt(5)]}

\* _load_json_schema(path)
_load_json_schema(path) ==
    CASE path = "ok.json" -> [raised |-> None, schema |-> Some(UserSchema)]
      [] path = "missing.json" -> [raised |-> Some("FileNotFoundError")]
      [] OTHER -> [raised |-> Some("JSONDecodeError")]

\* jsonschema's type check of one value.
is_type(v, type) ==
    CASE type = "integer" -> v.type = "int"
      [] type = "string" -> v.type = "str"

\* validator.iter_errors(data): the violations, in the order of the properties.
iter_errors(data, schema) ==
    IF schema.kind # "object" THEN [raised |-> Some("unknown type")]
    ELSE [raised |-> None,
          errors |->
             (IF is_type(data.id, schema.id) THEN << >>
              ELSE <<[absolute_path |-> <<"id">>,
                      message |-> repr(data.id) \o " is not of type '"
                                     \o schema.id \o "'"]>>)
             \o
             (IF is_type(data.name, schema.name) THEN << >>
              ELSE <<[absolute_path |-> <<"name">>,
                      message |-> repr(data.name) \o " is not of type '"
                                     \o schema.name \o "'"]>>)]

\* sep.join(parts)
RECURSIVE join(_, _)
join(sep, parts) ==
    IF parts = << >> THEN ""
    ELSE IF Len(parts) = 1 THEN parts[1]
    ELSE parts[1] \o sep \o join(sep, Tail(parts))

\* _format_validation_errors(errors)
_format_validation_errors(errors) ==
    [i \in 1..Len(errors) |->
        "\t- (" \o join("/", errors[i].absolute_path) \o ") " \o errors[i].message]

\* A variant of _validate_json_data that reports the first violation only.
first_violation_only(data, schema) ==
    LET it == iter_errors(data, schema)
    IN  IF it.raised # None
        THEN <<FALSE, "JSON Schema validation error: " \o it.raised[1]>>
        ELSE IF it.errors # << >>
        THEN <<FALSE, "JSON Schema validation failed:\n"
                         \o _format_validation_errors(it.errors)[1]>>
        ELSE <<TRUE, "JSON Schema validation passed">>

\* _validate_json_data(data, schema) -> (is_valid, error_message)
_validate_json_data(data, schema) ==
    LET it == iter_errors(data, schema)
    IN  IF it.raised # None
        THEN <<FALSE, "JSON Schema validation error: " \o it.raised[1]>>
        ELSE IF it.errors # << >>
        THEN <<FALSE, "JSON Schema validation failed:\n"
                         \o join("\n", _format_validation_errors(it.errors))>>
        ELSE <<TRUE, "JSON Schema validation passed">>

\* validate_json_strict(data, *, schema=None, schema_path=None): the
\* exception it raises (None when it returns) and, for a JsonValidationError,
\* the message and the errors the exception carries.
validate_json_strict(data, schema, schema_path) ==
    LET loaded == IF schema = None /\ schema_path # None
                  THEN _load_json_schema(schema_path[1])
                  ELSE [raised |-> None, schema |-> schema]
    IN  IF loaded.raised # None THEN [raised |-> loaded.raised, error |-> None]
        ELSE IF loaded.schema = None
        THEN [raised |-> Some("ValueError"), error |-> None]
        ELSE LET v == _validate_json_data(data, loaded.schema[1])
                 is_valid == v[1]
                 error_message == v[2]
             IN  IF is_valid THEN [raised |-> None, error |-> None]
                 ELSE LET it == iter_errors(data, loaded.schema[1])
                      IN  IF it.raised # None
                          THEN [raised |-> it.raised, error |-> None]
                          ELSE [raised |-> Some("JsonValidationError"),
                                error |-> Some([message |-> error_message,
                                                errors |-> _format_validation_errors(it.errors)])]

\* Task k calls validate_json_strict.
ValidateJsonStrict(k, data, schema, schema_path) ==
    /\ exc[k] = None
    /\ LET r == validate_json_strict(data, schema, schema_path)
       IN  /\ exc' = [exc EXCEPT ![k] = r.raised]
           /\ last' = [op |-> "strict", raised |-> r.raised, error |-> r.error,
                       data |-> data, schema |-> schema, schema_path |-> schema_path]
    /\ UNCHANGED <<current, registry, records, now, handles, stack, audit, phase, calls>>

\* What the introspector finds when soft_validate_json calls soft_assert: its
\* own line soft_assert(is_valid, error_message), or no source file when
\* the package is installed without its sources.
JsonEnv(src_ok, is_valid) ==
    IF src_ok THEN Env(TRUE, "ok", TRUE, Some("is_valid"), Some(PyBool(is_valid)))
    ELSE Env(TRUE, "OSError", TRUE, None, None)

\* soft_validate_json(data, *, schema=None, schema_path=None)
soft_validate_json(data, schema, schema_path, src_ok) ==
    LET loaded == IF schema = None /\ schema_path # None
                  THEN _load_json_schema(schema_path[1])
                  ELSE [raised |-> None, schema |-> schema]
    IN  IF loaded.raised # None
        THEN [raised |-> loaded.raised, ret |-> None, rec |-> None, a |-> NoAppend]
        ELSE IF loaded.schema = None
        THEN [raised |-> Some("ValueError"), ret |-> None, rec |-> None, a |-> NoAppend]
        ELSE LET v == _validate_json_data(data, loaded.schema[1])
                 is_valid == v[1]
                 error_message == v[2]
             IN  soft_assert(PyBool(is_valid), Some(error_message), None,
                             JsonEnv(src_ok, is_valid))

\* Task k calls soft_validate_json.
SoftValidateJson(k, data, schema, schema_path, src_ok) ==
    /\ exc[k] = None
    /\ LET r == soft_validate_json(data, schema, schema_path, src_ok)
       IN  /\ records' = r.a.records
           /\ registry' = r.a.registry
           /\ audit' = Audited(r.a)
           /\ calls' = IF r.raised = None
                       THEN Logged([kind |-> "soft", key |-> r.rec[1].passed,
                                    returned |-> TRUE])
                       ELSE calls
           /\ exc' = [exc EXCEPT ![k] = r.raised]
           /\ last' = [op |-> "json", raised |-> r.raised, rec |-> r.rec,
                       made |-> Len(r.a.records) - Len(records),
                       data |-> data, schema |-> schema, schema_path |-> schema_path]
    /\ UNCHANGED <<current, now, handles, stack, phase>>

-----------------------------------------------------------------------------
(* _http_client.py                                                         *)

Methods == {"GET", "POST"}
Urls == {"https://h/get"}
Bodies == {None, Some(""), Some("{}"), Some("oops")}
Statuses == {200, 500}

\* The grave accent that encloses the request in a label; strings here
\* cannot hold that character, so an apostrophe stands for it.
Tick == "'"

\* An httpx.Response, with the request that led to it.
Response(method, url, request_content, status_code, content, elapsed) ==
    [method |-> method, url |-> url, request_headers |-> "rh",
     request_content |-> request_content, status_code |-> status_code,
     elapsed |-> elapsed, headers |-> "h", content |-> content]

\* json.loads on the bodies of the model.
json_loads(text) ==
    IF text = "{}" THEN [raised |-> None, value |-> [type |-> "dict", items |-> << >>]]
    ELSE [raised |-> Some("JSONDecodeError")]

\* _try_parse_json(data)
_try_parse_json(data) ==
    IF data = None \/ data = Some("") THEN PyNone
    ELSE LET r == json_loads(data[1])
         IN  IF r.raised = None THEN r.value
             ELSE PyStr("b'" \o data[1] \o "'")

\* _format_response_time(elapsed_seconds), elapsed being whole milliseconds
_format_response_time(elapsed) == ToString(elapsed) \o ".000 ms"

\* _create_request_log(response)
_create_request_log(response) ==
    [method |-> response.method,
     url |-> response.url,
     request_headers |-> response.request_headers,
     request_body |-> _try_parse_json(response.request_content),
     status_code |-> response.status_code,
     response_time |-> _format_response_time(response.elapsed),
     response_headers |-> response.headers,
     response_body |-> _try_parse_json(response.content)]

\* A variant of request that logs the responses of successful requests only.
request_success_only(method, url, sent) ==
    IF sent.raised # None
    THEN [raised |-> sent.raised, ret |-> None, reports |-> << >>, a |-> NoAppend]
    ELSE LET response == sent.response
             log_entry == _create_request_log(response)
             label == "HTTP request to " \o Tick \o response.method \o " "
                         \o response.url \o Tick \o " ["
                         \o ToString(response.status_code) \o "]"
         IN  IF response.status_code = 200
             THEN [raised |-> None, ret |-> Some(response),
                   reports |-> <<[data |-> log_entry, label |-> label]>>,
                   a |-> add_data_report(log_entry, label)]
             ELSE [raised |-> None, ret |-> Some(response), reports |-> << >>,
                   a |-> NoAppend]

\* CheckmateHttpClient.request(method, url, **kwargs); sent is how
\* httpx.Client.request ends: with an exception, or with a response.
request(method, url, sent) ==
    IF sent.raised # None
    THEN [raised |-> sent.raised, ret |-> None, reports |-> << >>, a |-> NoAppend]
    ELSE LET response == sent.response
             log_entry == _create_request_log(response)
             label == "HTTP request to " \o Tick \o response.method \o " "
                         \o response.url \o Tick \o " ["
                         \o ToString(response.status_code) \o "]"
         IN  [raised |-> None, ret |-> Some(response),
              reports |-> <<[data |-> log_entry, label |-> label]>>,
              a |-> add_data_report(log_entry, label)]

\* The ways httpx.Client.request(method, url) can end.
Sent(method, url) ==
    {[raised |-> Some("ConnectError")]}
    \cup {[raised |-> None,
           response |-> Response(method, url, request_content, status_code, content, 1)] :
            request_content \in {None, Some("{}")}, status_code \in Statuses,
            content \in Bodies}

\* Task k sends a request through the client.
Request(k, method, url, sent) ==
    /\ exc[k] = None
    /\ LET r == request(method, url, sent)
       IN  /\ records' = r.a.records
           /\ registry' = r.a.registry
           /\ audit' = Audited(r.a)
           /\ calls' = IF r.raised = None
                       THEN Logged([kind |-> "data", key |-> _create_request_log(r.ret[1]),
                                    returned |-> TRUE])
                       ELSE calls
           /\ exc' = [exc EXCEPT ![k] = r.raised]
           /\ last' = [op |-> "http", raised |-> r.raised, ret |-> r.ret,
                       reports |-> r.reports,
                       made |-> Len(r.a.records) - Len(records), sent |-> sent]
    /\ UNCHANGED <<current, now, handles, stack, phase>>

-----------------------------------------------------------------------------
(* The host runner's hooks into the registry.  A test body, and every step *)
(* scope it opens, runs between begin and the end of the test.             *)

Idle == \A k \in Tasks : stack[k] = << >> /\ exc[k] = None

\* begin(test_identity): establish an empty timeline; the host now reports
\* id as the running test.
BeginTest(id) ==
    /\ current = NoTest
    /\ phase[id] = "new"
    /\ phase' = [phase EXCEPT ![id] = "begun"]
    /\ current' = id
    /\ registry' = [x \in DOMAIN registry \cup {id} |->
                       IF x = id THEN << >> ELSE registry[x]]
    /\ last' = [op |-> "begin"]
    /\ UNCHANGED <<records, now, handles, stack, exc, audit, calls>>

\* The test body has returned: no test is running.
FinishTest ==
    /\ current # NoTest
    /\ Idle
    /\ current' = NoTest
    /\ last' = [op |-> "finish"]
    /\ UNCHANGED <<registry, records, now, handles, stack, exc, audit, phase, calls>>

\* A variant of drain that leaves the identity in the registry.
drain_keep(id) ==
    [timeline |-> IF id \in DOMAIN registry
                  THEN [i \in 1..Len(registry[id]) |-> records[registry[id][i]]]
                  ELSE << >>,
     registry |-> registry]

\* drain(test_identity) -> Timeline: retrieve and clear.
drain(id) ==
    [timeline |-> IF id \in DOMAIN registry
                  THEN [i \in 1..Len(registry[id]) |-> records[registry[id][i]]]
                  ELSE << >>,
     registry |-> [x \in DOMAIN registry \ {id} |-> registry[x]]]

\* The report collector drains a test that is not running.
Drain(id) ==
    /\ current # id
    /\ LET d == drain(id)
       IN  /\ registry' = d.registry
           /\ phase' = [phase EXCEPT ![id] = IF @ = "begun" THEN "drained" ELSE @]
           /\ last' = [op |-> "drain", id |-> id, timeline |-> d.timeline,
                       raised |-> None, before |-> phase[id]]
    /\ UNCHANGED <<current, records, now, handles, stack, exc, audit, calls>>

-----------------------------------------------------------------------------

Init ==
    /\ current = NoTest
    /\ registry = << >>
    /\ records = << >>
    /\ now = 0
    /\ handles = [h \in Handles |-> None]
    /\ stack = [k \in Tasks |-> << >>]
    /\ exc = [k \in Tasks |-> None]
    /\ audit = << >>
    /\ phase = [id \in Tests |-> "new"]
    /\ calls = [id \in Tests |-> << >>]
    /\ last = [op |-> "init"]

\* The sequential model: test bodies run one at a time, by task A, each
\* under its own identity; the collector drains the tests that are not running.
Next ==
    \/ \E id \in Tests : Idle /\ BeginTest(id)
    \/ FinishTest
    \/ \E id \in Tests : Drain(id)
    \/ \E h \in Handles :
          /\ current # NoTest
          /\ Len(records) < MaxRecords
          /\ Len(stack["A"]) < MaxDepth
          /\ Enter("A", h)
    \/ Raise("A", "Error")
    \/ Exit("A")
    \/ Catch("A")
    \/ \E data \in Payloads, label \in Labels :
          /\ current # NoTest
          /\ Len(records) < MaxRecords
          /\ DataReport("A", data, label)
    \/ \E condition \in {PyBool(TRUE), PyInt(0)}, env \in {PlainEnv, UndecodableEnv} :
          /\ current # NoTest
          /\ Len(records) < MaxRecords
          /\ Made < MaxRecords
          /\ SoftAssert("A", condition, None, None, env)

Spec == Init /\ [][Next]_vars

\* Tests that record and are drained: soft checks and data, test after test.
NextDrain ==
    \/ \E id \in Tests : Idle /\ BeginTest(id)
    \/ FinishTest
    \/ \E id \in Tests : Drain(id)
    \/ Catch("A")
    \/ \E data \in Payloads, label \in Labels :
          /\ current # NoTest
          /\ Made < MaxDrained
          /\ DataReport("A", data, label)
    \/ \E condition \in {PyBool(TRUE), PyInt(0)}, env \in {PlainEnv, UndecodableEnv} :
          /\ current # NoTest
          /\ Made < MaxDrained
          /\ SoftAssert("A", condition, None, None, env)

SpecDrain == Init /\ [][NextDrain]_vars

\* Step scopes inside and outside tests: task A enters and leaves scopes while
\* a test runs and while none does; a scope entered before the host starts
\* tracking a test (at import, or by a fixture that outlives the test) may
\* still be open when the test body runs.
NextUntracked ==
    \/ BeginTest("t1")
    \/ FinishTest
    \/ \E h \in Handles :
          /\ Len(records) < MaxRecords
          /\ Len(stack["A"]) < MaxNest
          /\ Enter("A", h)
    \/ \E e \in StepExceptions : Raise("A", e)
    \/ Exit("A")
    \/ Catch("A")

SpecUntracked == Init /\ [][NextUntracked]_vars

\* The concurrent model: the tasks of one test body, interleaved.
NextSteps ==
    \/ Idle /\ BeginTest("t1")
    \/ FinishTest
    \/ \E k \in Tasks, h \in Handles :
          /\ current # NoTest
          /\ Len(records) < MaxStepRecords
          /\ Open < MaxOpen
          /\ Enter(k, h)
    \/ \E k \in Tasks, e \in StepExceptions : Raise(k, e)
    \/ \E k \in Tasks : Exit(k)
    \/ \E k \in Tasks : Catch(k)

SpecSteps == Init /\ [][NextSteps]_vars

\* soft_assert alone, under one test or outside any, on every input.
NextAssert ==
    \/ Idle /\ BeginTest("t1")
    \/ Catch("A")
    \/ \E condition \in CondValues, message \in Messages, env \in Envs :
          /\ Len(records) < MaxChecks
          /\ Made < MaxChecks
          /\ SoftAssert("A", condition, message, None, env)
    \/ \E condition \in CondValues, message \in Messages, details \in Details :
          /\ Len(records) < MaxChecks
          /\ Made < MaxChecks
          /\ SoftAssert("A", condition, message, Some(details), PlainEnv)

SpecAssert == Init /\ [][NextAssert]_vars

\* The adapters: task A validates JSON and sends requests, under a test or
\* outside any.
NextAdapters ==
    \/ Idle /\ BeginTest("t1")
    \/ Catch("A")
    \/ \E data \in JsonData, schema \in {None} \cup {Some(x) : x \in Schemas},
          schema_path \in {None} \cup {Some(x) : x \in SchemaPaths},
          src_ok \in BOOLEAN :
          /\ Len(records) < MaxAdapterRecords
          /\ SoftValidateJson("A", data, schema, schema_path, src_ok)
    \/ \E data \in JsonData, schema \in {None} \cup {Some(x) : x \in Schemas},
          schema_path \in {None} \cup {Some(x) : x \in SchemaPaths} :
          ValidateJsonStrict("A", data, schema, schema_path)
    \/ \E method \in Methods, url \in Urls :
          \E sent \in Sent(method, url) :
              /\ Len(records) < MaxAdapterRecords
              /\ Request("A", method, url, sent)

SpecAdapters == Init /\ [][NextAdapters]_vars

-----------------------------------------------------------------------------
(* Properties of soft_assert                                               *)

\* The values Python takes for true.
Truthy == {PyBool(TRUE), PyStr("a"), PyList(<<1>>)}

\* C1: whatever the condition value, and with details supplied or derived,
\* a soft_assert call returns bool(condition), and the record it makes (the
\* one stored on the timeline when a test is running) has
\* passed = bool(condition), whatever the introspector's re-evaluation gave.
C1_ReturnsBoolOfCondition ==
    last.op = "soft" =>
        /\ last.ret = Some(last.condition \in Truthy)
        /\ last.rec # None
        /\ last.rec[1].passed = (last.condition \in Truthy)
        /\ current # NoTest => records[Len(records)] = last.rec[1]

\* C4: soft_assert called without details never raises because of the
\* introspection: every failure of it degrades to a fallback details string.
C4_IntrospectionNeverRaises ==
    last.op = "soft" /\ last.details = None =>
        /\ last.raised = None
        /\ last.rec # None
        /\ last.ret # None

\* C8: the soft check that a call without details puts on the timeline has
\* details that are neither None nor the empty string.
C8_DetailsNonEmpty ==
    last.op = "soft" /\ last.details = None /\ last.raised = None /\ current # NoTest =>
        /\ records[Len(records)].kind = "soft"
        /\ records[Len(records)].details # None
        /\ records[Len(records)].details # Some("")

-----------------------------------------------------------------------------
(* Properties of the timeline                                              *)

\* Record rec is the record of recording call `call`.
Matches(rec, call) ==
    /\ rec.kind = call.kind
    /\ CASE call.kind = "step" -> rec.name = call.key
         [] call.kind = "soft" -> rec.passed = call.key
         [] call.kind = "data" -> rec.payload = call.key

SameOrder(timeline, log) ==
    /\ Len(timeline) = Len(log)
    /\ \A i \in 1..Len(log) : Matches(timeline[i], log[i])

\* The calls of a log that returned to their caller.
HasReturned(call) == call.returned

Returned(log) == SelectSeq(log, HasReturned)

Timeline(id) == [i \in 1..Len(registry[id]) |-> records[registry[id][i]]]

\* C3: the timeline of a test, while it is kept and when it is drained, holds
\* exactly one record for each step entry, soft_assert call and
\* add_data_report call made under that test, in call order; and a
\* soft_assert that fails leaves no exception behind, so the body goes on.
C3_TimelineInCallOrder ==
    /\ \A id \in DOMAIN registry : SameOrder(Timeline(id), calls[id])
    /\ last.op = "drain" /\ last.before = "begun" =>
          SameOrder(last.timeline, calls[last.id])
    /\ last.op = "soft" /\ last.ret = Some(FALSE) => exc["A"] = None

\* C7: a drain returns the timeline of the identity and removes it: the
\* first drain of an identity returns the records of the calls that returned
\* under it, the identity is absent afterwards, every later drain of it
\* returns the empty timeline, so does the drain of an identity that recorded
\* nothing, and no drain raises.
C7_DrainRemoves ==
    last.op = "drain" =>
        /\ last.raised = None
        /\ last.id \notin DOMAIN registry
        /\ last.before = "begun" =>
              SameOrder(last.timeline, Returned(calls[last.id]))
        /\ last.before = "drained" => last.timeline = << >>
        /\ Returned(calls[last.id]) = << >> => last.timeline = << >>

\* A drain of an identity that had recorded events and was drained before.
C7_Witness ==
    /\ last.op = "drain"
    /\ last.before = "drained"
    /\ Returned(calls[last.id]) # << >>
    /\ last.timeline = << >>

-----------------------------------------------------------------------------
(* Properties of step scopes                                               *)

StepRecords == {i \in 1..Len(records) : records[i].kind = "step"}

\* C2: the record of a step whose scope has been left has outcome failed if
\* an exception (a cancellation included) escaped that scope and ok if none
\* did, and the exit handler hands the exception on to the caller.
C2_FailedIffEscaped ==
    /\ \A i \in StepRecords :
          audit[i].exited =>
              records[i].outcome = Some(IF audit[i].escaped THEN "failed" ELSE "ok")
    /\ last.op = "exit" => last.propagated = last.raised

\* C5: a step record is closed once, by the exit of the scope that registered
\* it, and never again; closed, it has end >= start.
C5_ClosedExactlyOnce ==
    \A i \in StepRecords :
        /\ audit[i].closes = (IF audit[i].exited THEN 1 ELSE 0)
        /\ records[i].end # None => records[i].end[1] >= records[i].start[1]

\* C6: a scope entered where add_step_record returns None is entered and
\* left without touching any record and without raising; the body runs
\* inside it, and an exception raised in the body goes on to the caller.
C6_UntrackedNoOp ==
    /\ last.op = "enter" /\ last.ref = None =>
          /\ last.raised = None
          /\ last.untouched
          /\ stack["A"] # << >>
    /\ last.op = "exit" /\ last.ref = None =>
          /\ last.untouched
          /\ last.propagated = last.raised

-----------------------------------------------------------------------------
(* Properties of the adapters                                              *)

\* A schema reaches the validation: given directly, or loaded from the path.
HasSchema ==
    \/ last.schema # None
    \/ last.schema_path = Some("ok.json")

TheSchema == IF last.schema # None THEN last.schema[1] ELSE UserSchema

\* What the validation of the model's data must report.
ExpectedOutcome(data, schema) ==
    CASE schema = BadSchema ->
            <<FALSE, "JSON Schema validation error: unknown type">>
      [] data = [id |-> PyInt(1), name |-> PyStr("a")] ->
            <<TRUE, "JSON Schema validation passed">>
      [] data = [id |-> PyStr("x"), name |-> PyStr("a")] ->
            <<FALSE, "JSON Schema validation failed:\n\t- (id) 'x' is not of type 'integer'">>
      [] data = [id |-> PyStr("x"), name |-> PyInt(5)] ->
            <<FALSE, "JSON Schema validation failed:\n\t- (id) 'x' is not of type 'integer'\n\t- (name) 5 is not of type 'string'">>

\* C9, as claimed: soft_validate_json never raises and every call records
\* one soft assertion, a missing or unusable schema included.
C9_SoftValidationNeverRaises ==
    last.op = "json" =>
        /\ last.raised = None
        /\ last.rec # None
        /\ current # NoTest => last.made = 1

\* C9, amended: a soft_validate_json call that a schema reaches never raises
\* and records exactly one soft assertion, whose passed value is the outcome
\* of the validation and whose message is the violation listing (for an
\* unusable schema, the validation error); a call that no schema reaches
\* raises and records nothing.
C9_SoftValidationWithSchema ==
    last.op = "json" =>
        IF HasSchema
        THEN /\ last.raised = None
             /\ last.rec # None
             /\ last.rec[1].passed = ExpectedOutcome(last.data, TheSchema)[1]
             /\ last.rec[1].message = ExpectedOutcome(last.data, TheSchema)[2]
             /\ current # NoTest =>
                   last.made = 1 /\ records[Len(records)] = last.rec[1]
        ELSE /\ last.raised # None
             /\ last.made = 0
             /\ last.schema = None /\ last.schema_path = None =>
                   last.raised = Some("ValueError")

\* Under a test, a payload with two violations was validated and recorded as
\* one failing soft assertion.
C9_Witness ==
    /\ last.op = "json"
    /\ current # NoTest
    /\ last.data = [id |-> PyStr("x"), name |-> PyInt(5)]
    /\ last.schema = Some(UserSchema)
    /\ last.made = 1
    /\ ~records[Len(records)].passed

C12_StrictRaisesSameList ==
    last.op = "strict" /\ HasSchema =>
        IF ExpectedOutcome(last.data, TheSchema)[1]
        THEN last.raised = None
        ELSE /\ last.raised = Some("JsonValidationError")
             /\ last.error # None
             /\ ExpectedOutcome(last.data, TheSchema)[2] =
                   "JSON Schema validation failed:\n" \o join("\n", last.error[1].errors)

-----------------------------------------------------------------------------
(* Properties of the condition introspector                                *)

\* C11: the re-evaluation of the condition's sub-expressions leaves the
\* caller's state alone: the binding the caller holds, and the object it
\* refers to, are after a soft_assert call what they were before it.
C11_CallerStateUnchanged ==
    last.op = "soft" => last.x_after = last.x

\* The details the introspector is to derive from a condition source under a
\* binding of x, case by case.
ExpectedDetails(source, x) ==
    CASE source = "x > 5" ->
            (CASE x = None -> "x > 5 (x > 5)"
               [] x = Some(PyInt(3)) -> "x > 5 (3 > 5)"
               [] x = Some(PyStr("")) -> "x > 5 ('' > 5)"
               [] x = Some(PyList(<<1, 1>>)) -> "x > 5 ([1, 1] > 5)")
      [] source = "x is None" ->
            (CASE x = None -> "x is None (x is None)"
               [] x = Some(PyInt(3)) -> "x is None (3 is None)"
               [] x = Some(PyStr("")) -> "x is None ('' is None)"
               [] x = Some(PyList(<<1, 1>>)) -> "x is None ([1, 1] is None)")
      [] source = "x.pop() == 1" ->
            (CASE x = Some(PyList(<<1, 1>>)) -> "x.pop() == 1 (1 == 1)"
               [] OTHER -> "x.pop() == 1 (x.pop() == 1)")
      [] source = "x" ->
            (CASE x = None -> "x"
               [] x = Some(PyInt(3)) -> "x (evaluates to 3)"
               [] x = Some(PyStr("")) -> "x (evaluates to '')"
               [] x = Some(PyList(<<1, 1>>)) -> "x (evaluates to [1, 1])")
      [] source = "x.pop()" ->
            (CASE x = Some(PyList(<<1, 1>>)) -> "x.pop() (evaluates to 1)"
               [] OTHER -> "x.pop()")
      [] source = "x >" -> "x >"

\* C13: when the introspector has extracted a condition source, the details
\* it records are, for a binary comparison, the source followed by
\* (left operator-symbol right), each operand being its repr after
\* re-evaluation at the caller or its own source text when that raises; for
\* any other expression, the source followed by (evaluates to repr), or the
\* source alone when the evaluation raises.
C13_DetailsOfComparison ==
    last.op = "soft" /\ last.details = None /\ last.source # None =>
        /\ last.rec # None
        /\ last.rec[1].details = Some(ExpectedDetails(last.source[1], last.x))

\* Under a test, a comparison whose left operand is unbound at the caller
\* was recorded with the operand's source text in place of its value.
C13_Witness ==
    /\ last.op = "soft"
    /\ current # NoTest
    /\ last.details = None
    /\ last.source = Some("x is None")
    /\ last.x = None
    /\ records[Len(records)].details = Some("x is None (x is None)")

\* C14: soft_assert records the message and the details the caller supplies
\* as they are: the recorded message is the literal "Soft assertion" only
\* when the message is omitted, and the introspector runs, and writes the
\* details, only when the details are omitted.
C14_SuppliedTextUnchanged ==
    last.op = "soft" =>
        /\ last.rec # None
        /\ last.message # None => last.rec[1].message = last.message[1]
        /\ last.message = None => last.rec[1].message = "Soft assertion"
        /\ last.details # None =>
              /\ last.rec[1].details = last.details
              /\ last.x_after = last.x

=============================================================================
